---------------------------- MODULE Spec2Model ----------------------------
(*
  A model of the stacksjs reverse proxy (rpx): the request handler of
  createProxyServer with its clean-URL fallback chain, the port allocator
  (isPortInUse / findAvailablePort / setupReverseProxy), and the lifecycle of a
  batch of routes (startProxies, startServer, cleanup, the signal handlers).

  The specifications of the module:
    Spec      the run of a batch of routes, from startProxies to process exit
    SpecPort  one setupReverseProxy / findAvailablePort call over every
              assignment of port states
    SpecReq   the request handler of one listener, request by request
    SpecHosts addHosts and removeHosts on the hosts file, call by call
    SpecLoad  the reads of the certificate files
    SpecLive  the runs of Spec in which closing servers get closed and
              removeHosts settles
    SpecSan   the subject alternative names of the leaf certificate
    SpecConc  the port probes and binds of routes started concurrently
    SpecTmp   addHosts and removeHosts in flight together, step by step
  The variables a specification does not use keep their initial value.
*)
EXTENDS Integers, Sequences, FiniteSets, TLC

(***************************************************************************)
(* Bounds of the model.                                                    *)
(***************************************************************************)
\* Longest inbound request path, in tokens ("/", ".", a word).
MaxPathLen == 4
\* How many ports above each fallback base (8080, 8443) have a modelled state.
PortSpan == 2
\* Most routes in one startProxies batch.
MaxRoutes == 3
\* Most signals and uncaught exceptions delivered in one run.
MaxSignals == 1
\* Most listen calls that fail in one run.
MaxListenFailures == 1
\* The hosts file has at most MaxFileLines lines before the first call.
MaxFileLines == 3
\* At most MaxFileOps calls are made on the hosts file.
MaxFileOps == 2
\* At most MaxLoadCalls reads of the certificate files are made.
MaxLoadCalls == 2
\* Most routes in the options handed to httpsConfig.
MaxSanRoutes == 3
\* The routes started concurrently.
ConcRoutes == 2
\* Most routes in a batch of the runs checked for termination.
MaxLiveRoutes == 2

(***************************************************************************)
(* Request paths.  A path is a sequence of tokens: "/" and "." stand for   *)
(* themselves, every other token is a word of [a-z0-9]+ characters.        *)
(***************************************************************************)
Words == {"about", "css", "html", "index"}

PathTokens == {"/", ".", "about", "css", "html"}

DotHtml == <<".", "html">>

\* A request path as a client sends it: segments of words and dotted names
\* separated by "/" ("/", "/about", "/about/", "/about.html", "/about/css").
WellFormed(p) ==
  \A i \in 1..Len(p) :
    /\ p[i] = "." => (i < Len(p) /\ p[i - 1] \in Words /\ p[i + 1] \in Words)
    /\ (p[i] = "/" /\ i < Len(p)) => p[i + 1] \in Words
    /\ (p[i] \in Words /\ i < Len(p)) => p[i + 1] \notin Words

\* All inbound paths: they start with "/" and have at most MaxPathLen tokens.
Paths ==
  { p \in UNION { { <<"/">> \o t : t \in [1..n -> PathTokens] } :
                   n \in 0..(MaxPathLen - 1) } : WellFormed(p) }

EndsWith(path, suffix) ==
  /\ Len(path) >= Len(suffix)
  /\ SubSeq(path, Len(path) - Len(suffix) + 1, Len(path)) = suffix

\* path.match(/\.[a-z0-9]+$/i): a dot followed by one or more word
\* characters up to the end of the path.
HasExtension(path) ==
  \E i \in 1..(Len(path) - 1) :
    /\ path[i] = "."
    /\ \A j \in (i + 1)..Len(path) : path[j] \in Words

\* path.slice(0, -5) of a path that ends with ".html".
StripHtml(path) == SubSeq(path, 1, Len(path) - 2)

\* The path sent upstream for an inbound url (the clean-URL rewrite).
ForwardPath(url, cleanUrls) ==
  IF cleanUrls /\ ~HasExtension(url)
    THEN IF EndsWith(url, <<"/">>)
           THEN url \o <<"index", ".", "html">>
           ELSE url \o DotHtml
    ELSE url

\* The alternative paths tried after a 404, computed from the forwarded path.
AlternativePaths(path) ==
  (IF EndsWith(path, DotHtml)
     THEN <<StripHtml(path)>>
     ELSE IF ~HasExtension(path) THEN <<path \o DotHtml>> ELSE <<>>)
  \o
  (IF ~EndsWith(path, <<"/">>)
     THEN <<path \o <<"/", "index", ".", "html">>>>
     ELSE <<>>)


(***************************************************************************)
(* State.                                                                  *)
(***************************************************************************)
VARIABLES
  \* --- request handler of one listener (SpecReq) ---
  hOrigin,      \* how the listener was created
  hOption,      \* the cleanUrls option the caller gave for the route
  hCleanUrls,   \* the cleanUrls parameter the request handler closes over
  url,          \* req.url of the request being served, <<>> when idle
  inbound,      \* req.method and req.headers of that request
  upReqs,       \* the requests sent to the upstream for it, in order
  writes        \* the res.writeHead calls made for it, in order

reqVars == <<hOrigin, hOption, hCleanUrls, url, inbound, upReqs, writes>>

VARIABLES
  \* --- one call of the port allocator (SpecPort) ---
  pCall,        \* the function called: setupReverseProxy or findAvailablePort
  pOccupied,    \* the ports other processes hold
  pPrivileged,  \* whether this process may bind ports below 1024
  pSsl,         \* setupReverseProxy: whether the route has TLS material
  pStart,       \* findAvailablePort: its startPort argument
  pPc,          \* "called", then "returned", "listening" or "pending"
  pResult       \* what the call produced

portVars == <<pCall, pOccupied, pPrivileged, pSsl, pStart, pPc, pResult>>

VARIABLES
  \* --- one run of a batch of routes (Spec) ---
  routes,           \* the target domain of each route of the batch, in order
  httpsOpt,         \* the https option: "off", "true", "paths" (keyPath and
                    \* certPath given) or "keyPath" (keyPath alone given)
  cleanupHosts,     \* the cleanup.hosts option
  disk,             \* the certificate files under each set of paths
  cachedSSLConfig,  \* https.ts: the module-level certificate cache
  batchSSL,         \* startProxies: mergedOptions._cachedSSLConfig
  routeSSL,         \* startServer: sslConfig of the route being started
  generations,      \* how often the generation routine was entered
  pc,               \* where startProxies stands
  idx,              \* the route the loop of startProxies is at
  activeServers,    \* the registry, in order of registration
  cleanups,         \* the cleanup invocations that have not finished
  hostsFile,        \* the domains with a tagged block in the hosts file
  handlers,         \* whether startProxies registered its handlers
  events,           \* the signals and faults delivered, in order
  connTest,         \* startServer: the outcome of each route's testConnection
  started,          \* startProxies: the startServer calls made for each route
                    \* and how the promise of the last one settled
  exited,           \* whether process.exit was called
  exitCode          \* the code it was called with

runVars == <<routes, httpsOpt, cleanupHosts, disk, cachedSSLConfig, batchSSL,
             routeSSL, generations, pc, idx, activeServers, cleanups,
             hostsFile, handlers, events, connTest, started, exited,
             exitCode>>

VARIABLES
  \* --- the hosts file (SpecHosts) ---
  fileInitial,      \* the lines of the hosts file before the first call
  fileLines,        \* the lines of the hosts file
  fileOps           \* the calls made, with their outcome and the file they left

fileVars == <<fileInitial, fileLines, fileOps>>

VARIABLES
  \* --- reading the certificate files (SpecLoad) ---
  certFiles,        \* the state of the key, certificate and CA file
  loadLog           \* the calls made and what each returned or threw

loadVars == <<certFiles, loadLog>>

VARIABLES
  \* --- the names of the leaf certificate (SpecSan) ---
  sanOptions,       \* the options handed to httpsConfig
  sanNames          \* the subjectAltNames of the configuration it returned

sanVars == <<sanOptions, sanNames>>

VARIABLES
  \* --- routes started concurrently (SpecConc) ---
  cOccupied,        \* the ports other processes hold
  cRoute,           \* where the startup of each route stands
  cListeners        \* the listeners of this process that are bound

concVars == <<cOccupied, cRoute, cListeners>>

VARIABLES
  \* --- addHosts and removeHosts in flight together (SpecTmp) ---
  tInitial,         \* the lines of the hosts file before the two calls
  tHosts,           \* the hosts argument of addHosts
  tFile,            \* the lines of the hosts file
  tTmp,             \* the temporary file: whether it exists, and its lines
  tAdd,             \* where addHosts stands, and the content it read
  tRemove           \* where removeHosts stands, and the content it read

tmpVars == <<tInitial, tHosts, tFile, tTmp, tAdd, tRemove>>

vars == <<reqVars, portVars, runVars, fileVars, loadVars, sanVars, concVars, tmpVars>>

(***************************************************************************)
(* The data of a run.                                                      *)
(***************************************************************************)
Domains == {"a.test", "b.test", "app.localhost", "127.0.0.1"}

\* toUrl.hostname.includes('localhost'), domain.includes('localhost')
IsLocalhost(domain) == domain = "app.localhost"

\* toUrl.hostname.includes('127.0.0.1')
IsLoopback(domain) == domain = "127.0.0.1"

\* The sets of certificate paths: one per domain (https: true, paths derived
\* from the domain by generateSSLPaths) and the explicitly configured one.
PathKeys == Domains \cup {"explicit"}

NoMaterial == [origin |-> "none", at |-> "none"]

\* The files found on disk when the run starts.
OldMaterial(pathKey) == [origin |-> "old", at |-> pathKey]

\* The key, leaf certificate and CA the generation routine writes.
NewMaterial(pathKey) == [origin |-> "new", at |-> pathKey]

\* No call on the hosts file was made.
FileIdle ==
  /\ fileInitial = <<>>
  /\ fileLines = <<>>
  /\ fileOps = <<>>

\* No certificate file was read.
LoadIdle ==
  /\ certFiles = <<>>
  /\ loadLog = <<>>

\* httpsConfig was not called.
SanIdle ==
  /\ sanOptions = <<>>
  /\ sanNames = {}

\* No route is started concurrently with another.
ConcIdle ==
  /\ cOccupied = {}
  /\ cRoute = <<>>
  /\ cListeners = {}

\* The temporary file of hosts.ts does not exist.
NoTmp == [exists |-> FALSE, lines |-> <<>>]

\* No call on the hosts file is in flight.
TmpIdle ==
  /\ tInitial = <<>>
  /\ tHosts = <<>>
  /\ tFile = <<>>
  /\ tTmp = NoTmp
  /\ tAdd = [pc |-> "idle", content |-> <<>>]
  /\ tRemove = [pc |-> "idle", content |-> <<>>]

\* No request is being served.
NoRequest == [method |-> "none", headers |-> <<>>]

NoSSL == [key |-> NoMaterial, cert |-> NoMaterial, ca |-> NoMaterial]

RunIdle ==
  /\ routes = <<>>
  /\ httpsOpt = "off"
  /\ cleanupHosts = FALSE
  /\ disk = [k \in PathKeys |-> NoMaterial]
  /\ cachedSSLConfig = NoMaterial
  /\ batchSSL = NoSSL
  /\ routeSSL = NoSSL
  /\ generations = 0
  /\ pc = "idle"
  /\ idx = 0
  /\ activeServers = <<>>
  /\ cleanups = {}
  /\ hostsFile = {}
  /\ handlers = FALSE
  /\ events = <<>>
  /\ connTest = <<>>
  /\ started = <<>>
  /\ exited = FALSE
  /\ exitCode = 0

(***************************************************************************)
(* The port allocator.                                                     *)
(***************************************************************************)
HttpPort == 80

HttpsPort == 443

HttpFallbackPort == 8080

HttpsFallbackPort == 8443

\* "No value": the promise that would carry the port never settles.
Unsettled == 0

\* The ports whose state the model chooses; every other port is free.
Ports ==
  {HttpPort, HttpsPort}
    \cup (HttpFallbackPort..(HttpFallbackPort + PortSpan))
    \cup (HttpsFallbackPort..(HttpsFallbackPort + PortSpan))

\* The outcome of server.listen(port, hostname) of the throwaway server:
\* a port below 1024 is refused to an unprivileged process (EACCES) before
\* the kernel looks at who holds it.
ListenOutcome(port, occupied, privileged) ==
  IF port < 1024 /\ ~privileged THEN "EACCES"
  ELSE IF port \in occupied THEN "EADDRINUSE"
  ELSE "listening"

\* isPortInUse: resolve(true) on EADDRINUSE, resolve(false) on 'listening';
\* any other error resolves nothing, the promise stays pending.
IsPortInUse(port, occupied, privileged) ==
  LET outcome == ListenOutcome(port, occupied, privileged)
  IN IF outcome = "EADDRINUSE" THEN "true"
     ELSE IF outcome = "listening" THEN "false"
     ELSE "pending"

\* A probe loop that steps over the port next to a busy one.
NextProbeSkipping(port) == port + 2

\* The port the loop of findAvailablePort probes after a busy one.
NextProbe(port) == port + 1

\* findAvailablePort: probe upward from startPort until a port is not in use.
RECURSIVE FindAvailablePort(_, _, _)
FindAvailablePort(port, occupied, privileged) ==
  LET inUse == IsPortInUse(port, occupied, privileged)
  IN IF inUse = "true" THEN FindAvailablePort(NextProbe(port), occupied, privileged)
     ELSE IF inUse = "false" THEN port
     ELSE Unsettled

\* A fallback search that starts from the plain-HTTP base for every route.
FallbackPortHttpOnly(ssl) == HttpFallbackPort

\* The base findAvailablePort starts from when the target port is busy.
FallbackPort(ssl) == IF ssl THEN HttpsFallbackPort ELSE HttpFallbackPort

TargetPort(ssl) == IF ssl THEN HttpsPort ELSE HttpPort

\* A setupReverseProxy that probes no port: the redirect server is started
\* for every TLS route and the route listens on the target port.
SetupReverseProxyUnprobed(ssl, occupied, privileged) ==
  [redirect |-> ssl,
   finalPort |-> TargetPort(ssl),
   warning |-> <<>>,
   listen |-> TargetPort(ssl)]

\* setupReverseProxy without a portManager, up to the createProxyServer
\* call: whether the redirect server is started, the port chosen (Unsettled
\* when a probe never settles), and the warning logged.
SetupReverseProxy(ssl, occupied, privileged) ==
  LET redirectProbe == IF ssl THEN IsPortInUse(HttpPort, occupied, privileged)
                       ELSE "skipped"
      redirect == redirectProbe = "false"
      occ2 == IF redirect THEN occupied \cup {HttpPort} ELSE occupied
      targetPort == TargetPort(ssl)
      targetProbe == IF redirectProbe = "pending" THEN "pending"
                     ELSE IsPortInUse(targetPort, occ2, privileged)
      finalPort == IF targetProbe = "pending" THEN Unsettled
                   ELSE IF targetProbe = "true"
                     THEN FindAvailablePort(FallbackPort(ssl), occ2, privileged)
                   ELSE targetPort
  IN [redirect |-> redirect,
      finalPort |-> finalPort,
      warning |-> IF finalPort # Unsettled /\ finalPort # targetPort
                    THEN <<targetPort, finalPort>> ELSE <<>>,
      listen |-> finalPort]

NoResult == [redirect |-> FALSE, finalPort |-> Unsettled, warning |-> <<>>,
             listen |-> Unsettled]

\* A call of setupReverseProxy for one route, through createProxyServer.
CallSetupReverseProxy ==
  /\ pCall = "setupReverseProxy"
  /\ pPc = "called"
  /\ LET r == SetupReverseProxy(pSsl, pOccupied, pPrivileged)
     IN /\ pResult' = r
        /\ pPc' = IF r.finalPort = Unsettled THEN "pending" ELSE "listening"
  /\ UNCHANGED <<pCall, pOccupied, pPrivileged, pSsl, pStart, reqVars, runVars, fileVars, loadVars, sanVars, concVars, tmpVars>>

\* A call of findAvailablePort(pStart, hostname).
CallFindAvailablePort ==
  /\ pCall = "findAvailablePort"
  /\ pPc = "called"
  /\ LET port == FindAvailablePort(pStart, pOccupied, pPrivileged)
     IN /\ pResult' = [NoResult EXCEPT !.finalPort = port]
        /\ pPc' = IF port = Unsettled THEN "pending" ELSE "returned"
  /\ UNCHANGED <<pCall, pOccupied, pPrivileged, pSsl, pStart, reqVars, runVars, fileVars, loadVars, sanVars, concVars, tmpVars>>

PortIdle ==
  /\ pCall = "none"
  /\ pOccupied = {}
  /\ pPrivileged = TRUE
  /\ pSsl = FALSE
  /\ pStart = Unsettled
  /\ pPc = "idle"
  /\ pResult = NoResult

ReqIdle ==
  /\ hOrigin = "createProxyServer"
  /\ hOption = FALSE
  /\ hCleanUrls = FALSE
  /\ url = <<>>
  /\ inbound = NoRequest
  /\ upReqs = <<>>
  /\ writes = <<>>

InitPort ==
  /\ ReqIdle
  /\ RunIdle
  /\ FileIdle
  /\ LoadIdle
  /\ SanIdle
  /\ ConcIdle
  /\ TmpIdle
  /\ pOccupied \in SUBSET Ports
  /\ pPrivileged \in BOOLEAN
  /\ pPc = "called"
  /\ pResult = NoResult
  /\ \/ pCall = "setupReverseProxy" /\ pSsl \in BOOLEAN /\ pStart = Unsettled
     \/ pCall = "findAvailablePort" /\ pSsl = FALSE /\ pStart \in Ports

NextPort == CallSetupReverseProxy \/ CallFindAvailablePort

SpecPort == InitPort /\ [][NextPort]_vars

(***************************************************************************)
(* The request handler (createProxyServer.requestHandler).                 *)
(***************************************************************************)
Origins == {"startProxy", "startProxies", "createProxyServer"}

\* sourceUrl.host: the host:port of the upstream.
SourceHost == "localhost:3000"

\* The method and headers of the inbound requests.
Inbounds ==
  { [method |-> m, headers |-> h] :
      m \in {"GET", "POST"},
      h \in { [host |-> "app.localhost"],
              [host |-> "app.localhost", accept |-> "text/html"] } }

\* Upstream options that keep the Host header of the inbound request.
ProxyOptionsKeepHost(in) == [method |-> in.method, headers |-> in.headers]

\* proxyOptions: the method of the inbound request and its headers spread
\* with host set to sourceUrl.host.
ProxyOptions(in) ==
  [method |-> in.method,
   headers |-> [n \in DOMAIN in.headers \cup {"host"} |->
                  IF n = "host" THEN SourceHost ELSE in.headers[n]]]

Statuses == {200, 404, 500}

\* The cleanUrls argument setupReverseProxy hands to createProxyServer: the
\* call passes nine arguments (..., ssl, vitePluginUsage, verbose), so the
\* tenth parameter, cleanUrls, is undefined whatever the route option says.
SetupReverseProxyCleanUrls(option) == FALSE

\* startProxy and startProxies copy the option into the options of
\* startServer, which spreads them into setupReverseProxy.
HandlerCleanUrls(origin, option) ==
  IF origin = "createProxyServer" THEN option
  ELSE SetupReverseProxyCleanUrls(option)

\* http.request(options, callback): the options of an upstream request and
\* how far it has got.
UpReq(path, kind, rest, opts) ==
  [path |-> path, method |-> opts.method, headers |-> opts.headers,
   kind |-> kind, rest |-> rest, st |-> "sent", status |-> 0]

WriteHead(status, headers, src) ==
  [status |-> status, headers |-> headers, src |-> src]

\* tryNextPath(paths): relay the original 404 when no alternative is left,
\* else request the first alternative from the upstream.
TryNextPath(paths, reqs, wr) ==
  IF paths = <<>>
    THEN [reqs |-> reqs, writes |-> Append(wr, WriteHead(404, "upstream", 1))]
    ELSE [reqs |-> Append(reqs, UpReq(Head(paths), "alt", Tail(paths), reqs[1])),
          writes |-> wr]

\* A second res.writeHead throws ERR_HTTP_HEADERS_SENT inside an event
\* handler: an uncaught exception, which ends in cleanup and process exit.
Crashed == Len(writes) > 1

Idle ==
  /\ ~Crashed
  /\ \A i \in 1..Len(upReqs) : upReqs[i].st \in {"ended", "failed"}
  /\ (upReqs # <<>> => writes # <<>>)

\* An inbound request: the handler rewrites the path and sends the primary
\* upstream request.
Request(u, in) ==
  /\ Idle
  /\ url' = u
  /\ inbound' = in
  /\ upReqs' = <<UpReq(ForwardPath(u, hCleanUrls), "primary", <<>>,
                       ProxyOptions(in))>>
  /\ writes' = <<>>
  /\ UNCHANGED <<hOrigin, hOption, hCleanUrls, portVars, runVars, fileVars, loadVars, sanVars, concVars, tmpVars>>

\* The callback of the primary upstream request.
ProxyResponse(status) ==
  /\ ~Crashed
  /\ upReqs # <<>>
  /\ upReqs[1].st = "sent"
  /\ LET reqs == [upReqs EXCEPT ![1].st = "responded", ![1].status = status]
         alts == AlternativePaths(upReqs[1].path)
     IN IF hCleanUrls /\ status = 404 /\ alts # <<>>
          THEN LET r == TryNextPath(alts, reqs, writes)
               IN upReqs' = r.reqs /\ writes' = r.writes
          ELSE /\ upReqs' = reqs
               /\ writes' = Append(writes, WriteHead(status, "upstream+security", 1))
  /\ UNCHANGED <<hOrigin, hOption, hCleanUrls, url, inbound, portVars, runVars, fileVars, loadVars, sanVars, concVars, tmpVars>>

\* The callback of the request for an alternative path.
AltResponse(i, status) ==
  /\ ~Crashed
  /\ i \in 2..Len(upReqs)
  /\ upReqs[i].st = "sent"
  /\ LET reqs == [upReqs EXCEPT ![i].st = "responded", ![i].status = status]
     IN IF status = 200
          THEN /\ upReqs' = reqs
               /\ writes' = Append(writes, WriteHead(200, "upstream", i))
          ELSE LET r == TryNextPath(upReqs[i].rest, reqs, writes)
               IN upReqs' = r.reqs /\ writes' = r.writes
  /\ UNCHANGED <<hOrigin, hOption, hCleanUrls, url, inbound, portVars, runVars, fileVars, loadVars, sanVars, concVars, tmpVars>>

\* proxyReq.on('error'): the socket of the primary request fails, before the
\* response or while its body is still open.
ProxyError ==
  /\ ~Crashed
  /\ upReqs # <<>>
  /\ upReqs[1].st \in {"sent", "responded"}
  /\ upReqs' = [upReqs EXCEPT ![1].st = "failed"]
  /\ writes' = Append(writes, WriteHead(502, "none", 0))
  /\ UNCHANGED <<hOrigin, hOption, hCleanUrls, url, inbound, portVars, runVars, fileVars, loadVars, sanVars, concVars, tmpVars>>

\* altReq.on('error'): the socket of an alternative request fails.
AltError(i) ==
  /\ ~Crashed
  /\ i \in 2..Len(upReqs)
  /\ upReqs[i].st \in {"sent", "responded"}
  /\ LET reqs == [upReqs EXCEPT ![i].st = "failed"]
         r == TryNextPath(upReqs[i].rest, reqs, writes)
     IN upReqs' = r.reqs /\ writes' = r.writes
  /\ UNCHANGED <<hOrigin, hOption, hCleanUrls, url, inbound, portVars, runVars, fileVars, loadVars, sanVars, concVars, tmpVars>>

\* The upstream response of request i ends: its socket is released and no
\* error event follows.
ResponseEnd(i) ==
  /\ ~Crashed
  /\ i \in 1..Len(upReqs)
  /\ upReqs[i].st = "responded"
  /\ upReqs' = [upReqs EXCEPT ![i].st = "ended"]
  /\ UNCHANGED <<hOrigin, hOption, hCleanUrls, url, inbound, writes, portVars,
                 runVars, fileVars, loadVars, sanVars, concVars, tmpVars>>

InitReq ==
  /\ PortIdle
  /\ RunIdle
  /\ FileIdle
  /\ LoadIdle
  /\ SanIdle
  /\ ConcIdle
  /\ TmpIdle
  /\ hOrigin \in Origins
  /\ hOption \in BOOLEAN
  /\ hCleanUrls = HandlerCleanUrls(hOrigin, hOption)
  /\ url = <<>>
  /\ inbound = NoRequest
  /\ upReqs = <<>>
  /\ writes = <<>>

NextReq ==
  \/ \E u \in Paths, in \in Inbounds : Request(u, in)
  \/ \E s \in Statuses : ProxyResponse(s)
  \/ \E i \in DOMAIN upReqs, s \in Statuses : AltResponse(i, s)
  \/ ProxyError
  \/ \E i \in DOMAIN upReqs : AltError(i)
  \/ \E i \in DOMAIN upReqs : ResponseEnd(i)

SpecReq == InitReq /\ [][NextReq]_vars


(***************************************************************************)
(* The run of a batch: startProxies, startServer, cleanup and the handlers *)
(* of signals and uncaught exceptions.  The batch runs as a privileged     *)
(* process on a machine whose ports are free, with cleanup.certs off.      *)
(***************************************************************************)
\* The paths a route's startServer reads its certificate from: the ones
\* configured, or the ones generateSSLPaths derives from the domain.  With
\* keyPath alone configured the certificate and CA paths are the derived
\* ones, and the set of paths is one per domain as well.
RouteKey(domain) == IF httpsOpt = "paths" THEN "explicit" ELSE domain

\* Where keyPath and certPath of the https option come from.
SuppliedPaths ==
  [keyPath |-> IF httpsOpt \in {"paths", "keyPath"} THEN "supplied" ELSE "none",
   certPath |-> IF httpsOpt = "paths" THEN "supplied" ELSE "none"]

\* httpsConfig: a path that is not configured is the default one,
\* options.https.keyPath || defaultPaths.keyPath.
HttpsConfig(paths) ==
  [f \in DOMAIN paths |-> IF paths[f] # "none" THEN paths[f] ELSE "default"]

\* loadSSLConfig: the field named by the error thrown when exactly one of
\* keyPath and certPath is set, "none" when nothing is thrown.
MissingField(paths) ==
  IF paths.keyPath # "none" /\ paths.certPath = "none" THEN "certPath"
  ELSE IF paths.keyPath = "none" /\ paths.certPath # "none" THEN "keyPath"
  ELSE "none"

\* loadSSLConfig validates the paths after options.https has been replaced
\* by httpsConfig(mergedOptions).
LoadSSLConfigThrows == MissingField(HttpsConfig(SuppliedPaths)) # "none"

\* The paths startProxies resolves the batch's certificate at: those of the
\* primary domain, proxies[0].to.
BatchKey == IF httpsOpt = "paths" THEN "explicit" ELSE routes[1]

\* checkExistingCertificates: key, cert and CA read from disk, or null.
CheckExistingCertificates(pathKey, d) ==
  IF d[pathKey] = NoMaterial THEN NoSSL
  ELSE [key |-> d[pathKey], cert |-> d[pathKey], ca |-> d[pathKey]]

\* loadSSLConfig: key and cert read from disk, no CA; null when unreadable.
LoadSSLConfig(pathKey, d) ==
  IF d[pathKey] = NoMaterial THEN NoSSL
  ELSE [key |-> d[pathKey], cert |-> d[pathKey], ca |-> NoMaterial]

\* A generateCertificate that fills the cache before the generation has
\* succeeded.
GenerateCertificateCachingEarly(pathKey, ok) ==
  IF cachedSSLConfig # NoMaterial
    THEN [threw |-> FALSE, disk |-> disk, cache |-> cachedSSLConfig,
          generations |-> generations]
  ELSE IF ok
    THEN [threw |-> FALSE,
          disk |-> [disk EXCEPT ![pathKey] = NewMaterial(pathKey)],
          cache |-> NewMaterial(pathKey),
          generations |-> generations + 1]
  ELSE [threw |-> TRUE, disk |-> disk, cache |-> NewMaterial(pathKey),
        generations |-> generations + 1]

\* generateCertificate: returns at once when the cache is set; otherwise runs
\* createRootCA, generateCert and the trust-store install, which write the
\* files and fill the cache when all succeed (ok) and throw otherwise.
GenerateCertificate(pathKey, ok) ==
  IF cachedSSLConfig # NoMaterial
    THEN [threw |-> FALSE, disk |-> disk, cache |-> cachedSSLConfig,
          generations |-> generations]
  ELSE IF ok
    THEN [threw |-> FALSE,
          disk |-> [disk EXCEPT ![pathKey] = NewMaterial(pathKey)],
          cache |-> NewMaterial(pathKey),
          generations |-> generations + 1]
  ELSE [threw |-> TRUE, disk |-> disk, cache |-> cachedSSLConfig,
        generations |-> generations + 1]

Listener(kind, route, port, ssl, state) ==
  [kind |-> kind, route |-> route, port |-> port, ssl |-> ssl,
   state |-> state, closeCalled |-> FALSE]

\* The ports held by this process: a listener holds its port from listen
\* until close is called on it.
OwnPorts(servers) ==
  { servers[i].port : i \in { j \in DOMAIN servers : servers[j].state = "open" } }

\* The servers whose listen call failed.
ListenFailures(servers) ==
  Cardinality({ i \in DOMAIN servers : servers[i].state = "failed" })

\* What server.listen of a route's server can do: the port probed free is
\* bound, or listen is rejected because the port was taken meanwhile.
ListenResults(servers) ==
  IF ListenFailures(servers) < MaxListenFailures
    THEN {"bound", "rejected"} ELSE {"bound"}

\* server.close(cb) on every registered server.
CloseAll(servers) ==
  [i \in DOMAIN servers |->
     [servers[i] EXCEPT !.closeCalled = TRUE,
                        !.state = IF @ = "open" THEN "closing" ELSE @]]

\* The promises one cleanup invocation waits for: the close callback of every
\* server registered at the time, and removeHosts when hosts cleanup was
\* asked for and a domain without 'localhost' in its name is given;
\* removing is domainsToClean, the domains handed to removeHosts.
CleanupOf(servers, hosts, domains) ==
  [servers |-> DOMAIN servers,
   removing |-> IF hosts THEN { d \in domains : ~IsLocalhost(d) } ELSE {},
   hosts |-> IF hosts /\ \E d \in domains : ~IsLocalhost(d)
               THEN "pending" ELSE "none"]

\* A close callback that runs for a server that was listening only.
CloseSettledListening(servers, i) == servers[i].state = "closed"

\* The close callback of a server has run: it is closed, or it never
\* listened.
CloseSettled(servers, i) == servers[i].state \in {"closed", "failed"}

\* Promise.all(cleanupPromises) of a cleanup invocation has resolved.
CleanupDone(c, servers) ==
  /\ \A i \in c.servers : CloseSettled(servers, i)
  /\ c.hosts # "pending"

\* The end of an action: the state of the registry and of the cleanups, and
\* process.exit(0) when the promises of one cleanup have all resolved.
Settle(servers, cls) ==
  /\ activeServers' = servers
  /\ cleanups' = cls
  /\ IF \E c \in cls : CleanupDone(c, servers)
       THEN exited' = TRUE /\ exitCode' = 0
       ELSE UNCHANGED <<exited, exitCode>>

\* The module-level handler: cleanup() without hosts or domains.
ModuleCleanup(servers) == CleanupOf(servers, FALSE, {})

\* cleanupHandler of startProxies: cleanup with the domains of the batch.
BatchCleanup(servers) ==
  CleanupOf(servers, cleanupHosts, { routes[i] : i \in DOMAIN routes })

\* startServer was not called for the route.
NotStarted == [calls |-> 0, settled |-> "none"]

\* await startServer(...) for route r: the call is made and its promise is
\* pending.
StartServerCall(st, r) ==
  [st EXCEPT ![r] = [calls |-> @.calls + 1, settled |-> "pending"]]

\* A loop that steps over the route after the current one.
NextRouteSkipping(settled) ==
  LET done == [started EXCEPT ![idx].settled = settled]
  IN IF idx + 1 < Len(routes)
       THEN pc' = "hosts" /\ idx' = idx + 2 /\ started' = StartServerCall(done, idx + 2)
       ELSE pc' = "running" /\ UNCHANGED idx /\ started' = done

\* The promise of startServer for the current route has settled, and the
\* loop of startProxies moves to the next route, or ends.
NextRoute(settled) ==
  LET done == [started EXCEPT ![idx].settled = settled]
  IN IF idx < Len(routes)
       THEN pc' = "hosts" /\ idx' = idx + 1 /\ started' = StartServerCall(done, idx + 1)
       ELSE pc' = "running" /\ UNCHANGED idx /\ started' = done

Config == <<routes, httpsOpt, cleanupHosts>>

\* A startProxies that enters its loop without resolving the certificate of
\* the batch.
ResolveCertificatesDeferred ==
  /\ pc = "certs"
  /\ ~exited
  /\ pc' = "hosts"
  /\ handlers' = TRUE
  /\ started' = StartServerCall(started, 1)
  /\ UNCHANGED <<Config, disk, cachedSSLConfig, batchSSL, generations, routeSSL,
                 idx, activeServers, cleanups, hostsFile, events, exited,
                 exitCode, connTest, reqVars, portVars, fileVars, loadVars, sanVars, concVars, tmpVars>>

\* startProxies, up to the first await of the first startServer call: the
\* certificate of the batch is read from disk or generated, and the
\* handlers are registered.  A generation that throws rejects startProxies.
ResolveCertificates ==
  /\ pc = "certs"
  /\ ~exited
  /\ IF httpsOpt = "off"
       THEN /\ pc' = "hosts"
            /\ handlers' = TRUE
            /\ UNCHANGED <<disk, cachedSSLConfig, batchSSL, generations>>
     ELSE IF CheckExistingCertificates(BatchKey, disk) # NoSSL
       THEN /\ batchSSL' = CheckExistingCertificates(BatchKey, disk)
            /\ pc' = "hosts"
            /\ handlers' = TRUE
            /\ UNCHANGED <<disk, cachedSSLConfig, generations>>
     ELSE \E ok \in BOOLEAN :
            LET g == GenerateCertificate(BatchKey, ok)
            IN /\ disk' = g.disk
               /\ cachedSSLConfig' = g.cache
               /\ generations' = g.generations
               /\ IF g.threw
                    THEN pc' = "rejected" /\ UNCHANGED <<batchSSL, handlers>>
                    ELSE /\ batchSSL' = CheckExistingCertificates(BatchKey, g.disk)
                         /\ pc' = "hosts"
                         /\ handlers' = TRUE
  /\ started' = IF pc' = "hosts" THEN StartServerCall(started, 1) ELSE started
  /\ UNCHANGED <<Config, routeSSL, idx, activeServers, cleanups, hostsFile,
                 events, exited, exitCode, connTest, reqVars, portVars, fileVars, loadVars, sanVars, concVars, tmpVars>>

\* startServer: the hosts file is checked for the route's domain and the
\* entry added when missing; a failure to add is logged and ignored.
ReconcileHosts ==
  /\ pc = "hosts"
  /\ ~exited
  /\ LET domain == routes[idx]
     IN IF IsLocalhost(domain) \/ IsLoopback(domain) \/ domain \in hostsFile
          THEN UNCHANGED hostsFile
          ELSE \E added \in BOOLEAN :
                 hostsFile' = IF added THEN hostsFile \cup {domain} ELSE hostsFile
  /\ pc' = "conn"
  /\ UNCHANGED <<Config, disk, cachedSSLConfig, batchSSL, routeSSL, generations,
                 idx, started, activeServers, cleanups, handlers, events, exited,
                 exitCode, connTest, reqVars, portVars, fileVars, loadVars, sanVars, concVars, tmpVars>>

\* A startServer that logs a failed testConnection and goes on.
TestConnectionIgnored ==
  /\ pc = "conn"
  /\ ~exited
  /\ \E connected \in BOOLEAN :
       connTest' = [connTest EXCEPT
                      ![idx] = IF connected THEN "connected" ELSE "failed"]
  /\ pc' = "ssl"
  /\ UNCHANGED <<Config, disk, cachedSSLConfig, batchSSL, routeSSL, generations,
                 idx, started, activeServers, cleanups, hostsFile, handlers, events,
                 exited, exitCode, reqVars, portVars, fileVars, loadVars, sanVars, concVars, tmpVars>>

\* startServer: testConnection to the upstream (a connect, an error or the
\* timeout); on failure process.exit(1).
TestConnection ==
  /\ pc = "conn"
  /\ ~exited
  /\ \E connected \in BOOLEAN :
       IF connected
         THEN /\ connTest' = [connTest EXCEPT ![idx] = "connected"]
              /\ pc' = "ssl"
              /\ UNCHANGED <<exited, exitCode>>
         ELSE /\ connTest' = [connTest EXCEPT ![idx] = "failed"]
              /\ exited' = TRUE
              /\ exitCode' = 1
              /\ UNCHANGED pc
  /\ UNCHANGED <<Config, disk, cachedSSLConfig, batchSSL, routeSSL, generations,
                 idx, started, activeServers, cleanups, hostsFile, handlers, events,
                 reqVars, portVars, fileVars, loadVars, sanVars, concVars, tmpVars>>

\* The catch of the loop of startProxies: cleanupHandler() is called and
\* the loop goes on with the next route.
RouteFailed ==
  /\ Settle(CloseAll(activeServers),
            cleanups \cup {BatchCleanup(activeServers)})
  /\ NextRoute("rejected")

\* startServer: the TLS material of the route.  With https on, the files
\* at the route's paths are loaded in place of options._cachedSSLConfig
\* (an error thrown by the load is logged and options._cachedSSLConfig
\* kept); with no material, generateCertificate is called and the files
\* are loaded again, and startServer throws when that fails too.
ResolveRouteSSL ==
  /\ pc = "ssl"
  /\ ~exited
  /\ LET pathKey == RouteKey(routes[idx])
         loaded == IF LoadSSLConfigThrows THEN batchSSL
                   ELSE LoadSSLConfig(pathKey, disk)
     IN IF httpsOpt = "off"
          THEN /\ routeSSL' = batchSSL
               /\ pc' = "setup"
               /\ UNCHANGED <<disk, cachedSSLConfig, generations, idx, started,
                              activeServers, cleanups, exited, exitCode>>
        ELSE IF loaded # NoSSL
          THEN /\ routeSSL' = loaded
               /\ pc' = "setup"
               /\ UNCHANGED <<disk, cachedSSLConfig, generations, idx, started,
                              activeServers, cleanups, exited, exitCode>>
        ELSE \E ok \in BOOLEAN :
               LET g == GenerateCertificate(pathKey, ok)
               IN /\ disk' = g.disk
                  /\ cachedSSLConfig' = g.cache
                  /\ generations' = g.generations
                  /\ IF \/ g.threw
                        \/ LoadSSLConfigThrows
                        \/ LoadSSLConfig(pathKey, g.disk) = NoSSL
                       THEN RouteFailed /\ UNCHANGED routeSSL
                       ELSE /\ routeSSL' = LoadSSLConfig(pathKey, g.disk)
                            /\ pc' = "setup"
                            /\ UNCHANGED <<idx, started, activeServers, cleanups,
                                           exited, exitCode>>
  /\ UNCHANGED <<Config, batchSSL, hostsFile, handlers, events, connTest, reqVars,
                 portVars, fileVars, loadVars, sanVars, concVars, tmpVars>>

\* startHttpRedirectServer: the redirect listener, registered on port 80.
StartHttpRedirectServer(servers) ==
  Append(servers, Listener("redirect", 0, HttpPort, NoSSL, "open"))

\* setupReverseProxy and createProxyServer for the route: the redirect
\* listener is started when the route has TLS material and port 80 probes
\* free, the listen port is chosen, the server is registered and listen is
\* called.  When listen fails, setupReverseProxy calls cleanup for the
\* route's domain and returns normally.
SetupRoute ==
  /\ pc = "setup"
  /\ ~exited
  /\ LET ssl == routeSSL # NoSSL
         r == SetupReverseProxy(ssl, OwnPorts(activeServers), TRUE)
         servers1 == IF r.redirect THEN StartHttpRedirectServer(activeServers)
                     ELSE activeServers
     IN \E outcome \in ListenResults(activeServers) :
          LET servers2 == Append(servers1,
                                 Listener("route", idx, r.listen, routeSSL,
                                          IF outcome = "bound" THEN "open"
                                          ELSE "failed"))
          IN IF outcome = "bound"
               THEN Settle(servers2, cleanups)
               ELSE Settle(CloseAll(servers2),
                           cleanups \cup {CleanupOf(servers2, cleanupHosts,
                                                    {routes[idx]})})
  /\ NextRoute("resolved")
  /\ UNCHANGED <<Config, disk, cachedSSLConfig, batchSSL, routeSSL, generations,
                 hostsFile, handlers, events, connTest, reqVars, portVars, fileVars, loadVars, sanVars, concVars, tmpVars>>

\* SIGINT and SIGTERM have the same handlers and are one kind.
EventKinds == {"signal", "uncaughtException"}

\* A signal or an uncaught exception is delivered: the module-level handler
\* runs cleanup and then, when startProxies has registered it, the batch's
\* handler runs it too.
Deliver(kind) ==
  /\ ~exited
  /\ pc # "idle"
  /\ Len(events) < MaxSignals
  /\ events' = Append(events, [kind |-> kind, at |-> pc])
  /\ LET closing == CloseAll(activeServers)
     IN Settle(closing,
               cleanups \cup {ModuleCleanup(activeServers)}
                        \cup (IF handlers THEN {BatchCleanup(activeServers)}
                              ELSE {}))
  /\ UNCHANGED <<Config, disk, cachedSSLConfig, batchSSL, routeSSL, generations,
                 pc, idx, started, hostsFile, handlers, connTest, reqVars, portVars, fileVars, loadVars, sanVars, concVars, tmpVars>>

\* The connections that kept the closing servers open have ended: 'close'
\* is emitted on each and the callbacks given to server.close run.
ServersClosed ==
  /\ ~exited
  /\ \E i \in DOMAIN activeServers : activeServers[i].state = "closing"
  /\ Settle([i \in DOMAIN activeServers |->
               [activeServers[i] EXCEPT
                  !.state = IF @ = "closing" THEN "closed" ELSE @]],
            cleanups)
  /\ UNCHANGED <<Config, disk, cachedSSLConfig, batchSSL, routeSSL, generations,
                 pc, idx, started, hostsFile, handlers, events, connTest, reqVars, portVars, fileVars, loadVars, sanVars, concVars, tmpVars>>

\* removeHosts of a cleanup has settled: on success every tagged block is
\* gone from the hosts file, on failure the error is logged and swallowed.
RemoveHostsSettled(c, removed) ==
  /\ ~exited
  /\ c.hosts = "pending"
  /\ hostsFile' = IF removed THEN {} ELSE hostsFile
  /\ Settle(activeServers,
            (cleanups \ {c})
              \cup {[c EXCEPT !.hosts = IF removed THEN "removed" ELSE "failed"]})
  /\ UNCHANGED <<Config, disk, cachedSSLConfig, batchSSL, routeSSL, generations,
                 pc, idx, started, handlers, events, connTest, reqVars, portVars, fileVars, loadVars, sanVars, concVars, tmpVars>>

\* The batches: one to MaxRoutes routes with different target domains.  The
\* two custom domains are alike, and b.test is taken as the second one: it is
\* in a batch only after a.test.
Batches ==
  { b \in UNION { [1..n -> Domains] : n \in 1..MaxRoutes } :
      /\ \A i, j \in DOMAIN b : b[i] = b[j] => i = j
      /\ \A j \in DOMAIN b :
           b[j] = "b.test" => \E i \in 1..(j - 1) : b[i] = "a.test" }

\* A batch of one to MaxRoutes routes handed to startProxies.  The only
\* certificate files on disk are those of earlier runs, at paths this
\* batch uses.
Init ==
  /\ ReqIdle
  /\ PortIdle
  /\ FileIdle
  /\ LoadIdle
  /\ SanIdle
  /\ ConcIdle
  /\ TmpIdle
  /\ routes \in Batches
  /\ httpsOpt \in {"off", "true", "paths", "keyPath"}
  /\ cleanupHosts \in BOOLEAN
  /\ \E found \in SUBSET { RouteKey(routes[i]) : i \in DOMAIN routes } :
       disk = [k \in PathKeys |->
                 IF httpsOpt # "off" /\ k \in found THEN OldMaterial(k)
                 ELSE NoMaterial]
  /\ cachedSSLConfig = NoMaterial
  /\ batchSSL = NoSSL
  /\ routeSSL = NoSSL
  /\ generations = 0
  /\ pc = "certs"
  /\ idx = 1
  /\ activeServers = <<>>
  /\ cleanups = {}
  /\ hostsFile = {}
  /\ handlers = FALSE
  /\ events = <<>>
  /\ connTest = [i \in DOMAIN routes |-> "untested"]
  /\ started = [i \in DOMAIN routes |-> NotStarted]
  /\ exited = FALSE
  /\ exitCode = 0

Next ==
  \/ ResolveCertificates
  \/ ReconcileHosts
  \/ TestConnection
  \/ ResolveRouteSSL
  \/ SetupRoute
  \/ \E kind \in EventKinds : Deliver(kind)
  \/ ServersClosed
  \/ \E c \in cleanups, removed \in BOOLEAN : RemoveHostsSettled(c, removed)

Spec == Init /\ [][Next]_vars

\* The runs of batches of at most MaxLiveRoutes routes in which what a
\* cleanup waits for comes about: the connections of a closing server end,
\* and removeHosts returns or throws.
InitLive == Init /\ Len(routes) <= MaxLiveRoutes

Fairness ==
  /\ WF_vars(ServersClosed)
  /\ WF_vars(\E c \in cleanups, removed \in BOOLEAN : RemoveHostsSettled(c, removed))

SpecLive == InitLive /\ [][Next]_vars /\ Fairness

(***************************************************************************)
(* The hosts file: addHosts and removeHosts of hosts.ts.  The content of   *)
(* the file is the sequence of its lines, content.split('\n'), and a line  *)
(* is a sequence of tokens, so that String.includes is the search for a    *)
(* contiguous run of tokens inside a line.                                 *)
(***************************************************************************)
Marker == <<"# Added by rpx">>

Blank == <<>>

\* The names handed to addHosts and removeHosts: app.test and app.test.dev.
HostNames == { <<"app.test">>, <<"app.test", ".dev">> }

\* `127.0.0.1 ${host}`
Ipv4Entry(host) == <<"127.0.0.1", " ">> \o host

\* `::1 ${host}`
Ipv6Entry(host) == <<"::1", " ">> \o host

\* A line of the hosts file that this tool never writes.
UserLine == <<"10.0.0.5", " ", "db.test">>

\* The lines a hosts file is made of before the first call.
FileLineSet ==
  {Blank, Marker, UserLine}
    \cup { Ipv4Entry(h) : h \in HostNames } \cup { Ipv6Entry(h) : h \in HostNames }

\* The hosts arguments: one name, or both.
HostLists ==
  { <<h>> : h \in HostNames } \cup { << <<"app.test">>, <<"app.test", ".dev">> >> }

\* content.includes(entry): entry has no line break, and is found inside
\* one line.
Includes(lines, entry) ==
  \E i \in DOMAIN lines :
    \E o \in 1..(Len(lines[i]) - Len(entry) + 1) :
      SubSeq(lines[i], o, o + Len(entry) - 1) = entry

\* The test of addHosts and checkHosts for a host being in the file.
HostExists(lines, host) ==
  Includes(lines, Ipv4Entry(host)) \/ Includes(lines, Ipv6Entry(host))

\* addHosts: the hosts that are not in the file yet.
NewEntries(lines, hosts) ==
  LET Missing(h) == ~HostExists(lines, h)
  IN SelectSeq(hosts, Missing)

\* addHosts: the lines that existingContent + hostEntries adds to the file.
\* Every entry is '\n# Added by rpx\n127.0.0.1 host\n::1 host' and the
\* entries are joined by '\n', which leaves an empty line between two.
RECURSIVE HostEntries(_)
HostEntries(newEntries) ==
  IF newEntries = <<>> THEN <<>>
  ELSE <<Marker, Ipv4Entry(Head(newEntries)), Ipv6Entry(Head(newEntries))>>
         \o (IF Len(newEntries) > 1
               THEN <<Blank>> \o HostEntries(Tail(newEntries))
               ELSE <<>>)

\* line.trim()
RECURSIVE Trim(_)
Trim(line) ==
  IF line = <<>> THEN line
  ELSE IF Head(line) = " " THEN Trim(Tail(line))
  ELSE IF line[Len(line)] = " " THEN Trim(SubSeq(line, 1, Len(line) - 1))
  ELSE line

\* removeHosts: lines.filter with lines.splice(index + 1, 2) inside.  A line
\* that trims to the marker is dropped together with the two lines after it,
\* whatever they are, and the filter goes on with the line after those.
RECURSIVE FilteredLines(_)
FilteredLines(lines) ==
  IF lines = <<>> THEN <<>>
  ELSE IF Trim(Head(lines)) = Marker
    THEN FilteredLines(SubSeq(lines, 4, Len(lines)))
  ELSE <<Head(lines)>> \o FilteredLines(Tail(lines))

\* removeHosts: the empty lines at the end are popped.
RECURSIVE PopEmpty(_)
PopEmpty(lines) ==
  IF lines # <<>> /\ Trim(lines[Len(lines)]) = Blank
    THEN PopEmpty(SubSeq(lines, 1, Len(lines) - 1))
    ELSE lines

\* removeHosts: newContent, `${filteredLines.join('\n')}\n`, as lines.
NewContent(lines) ==
  LET filteredLines == PopEmpty(FilteredLines(lines))
  IN Append(IF filteredLines = <<>> THEN <<Blank>> ELSE filteredLines, Blank)

FileOp(op, hosts, outcome, lines) ==
  [op |-> op, hosts |-> hosts, outcome |-> outcome, lines |-> lines]

\* addHosts(hosts): nothing is written when every host is in the file; else
\* the entries are appended through the temporary file and sudo cp, and
\* addHosts throws when the copy fails.
AddHosts(hosts, copied) ==
  /\ fileLines # <<>>
  /\ Len(fileOps) < MaxFileOps
  /\ LET newEntries == NewEntries(fileLines, hosts)
         outcome == IF newEntries = <<>> THEN "skipped"
                    ELSE IF copied THEN "added" ELSE "failed"
         lines == IF outcome = "added"
                    THEN fileLines \o HostEntries(newEntries)
                    ELSE fileLines
     IN /\ fileLines' = lines
        /\ fileOps' = Append(fileOps, FileOp("addHosts", hosts, outcome, lines))
  /\ UNCHANGED <<fileInitial, reqVars, portVars, runVars, loadVars, sanVars, concVars, tmpVars>>

\* removeHosts: the filter of a removeHosts that drops the tagged blocks of
\* the given hosts only.
RECURSIVE FilteredLinesOf(_, _)
FilteredLinesOf(lines, hosts) ==
  IF lines = <<>> THEN <<>>
  ELSE IF /\ Trim(Head(lines)) = Marker
          /\ Len(lines) >= 3
          /\ \E i \in DOMAIN hosts :
               lines[2] = Ipv4Entry(hosts[i]) /\ lines[3] = Ipv6Entry(hosts[i])
    THEN FilteredLinesOf(SubSeq(lines, 4, Len(lines)), hosts)
  ELSE <<Head(lines)>> \o FilteredLinesOf(Tail(lines), hosts)

\* A removeHosts that removes the blocks of the hosts it is given.
RemoveHostsGiven(hosts, copied) ==
  /\ fileLines # <<>>
  /\ Len(fileOps) < MaxFileOps
  /\ LET outcome == IF copied THEN "removed" ELSE "failed"
         kept == PopEmpty(FilteredLinesOf(fileLines, hosts))
         lines == IF copied
                    THEN Append(IF kept = <<>> THEN <<Blank>> ELSE kept, Blank)
                    ELSE fileLines
     IN /\ fileLines' = lines
        /\ fileOps' = Append(fileOps, FileOp("removeHosts", hosts, outcome, lines))
  /\ UNCHANGED <<fileInitial, reqVars, portVars, runVars, loadVars, sanVars, concVars, tmpVars>>

\* removeHosts(hosts): the file is rewritten without the tagged blocks,
\* through the temporary file and sudo cp, and removeHosts throws when the
\* copy fails.  The hosts argument is used in messages only.
RemoveHosts(hosts, copied) ==
  /\ fileLines # <<>>
  /\ Len(fileOps) < MaxFileOps
  /\ LET outcome == IF copied THEN "removed" ELSE "failed"
         lines == IF copied THEN NewContent(fileLines) ELSE fileLines
     IN /\ fileLines' = lines
        /\ fileOps' = Append(fileOps, FileOp("removeHosts", hosts, outcome, lines))
  /\ UNCHANGED <<fileInitial, reqVars, portVars, runVars, loadVars, sanVars, concVars, tmpVars>>

\* The contents of the hosts file before the first call: one to
\* MaxFileLines lines.
FileContents == UNION { [1..n -> FileLineSet] : n \in 1..MaxFileLines }

InitHosts ==
  /\ ReqIdle
  /\ PortIdle
  /\ RunIdle
  /\ LoadIdle
  /\ SanIdle
  /\ ConcIdle
  /\ TmpIdle
  /\ fileInitial \in FileContents
  /\ fileLines = fileInitial
  /\ fileOps = <<>>

NextHosts ==
  \/ \E hosts \in HostLists, copied \in BOOLEAN : AddHosts(hosts, copied)
  \/ \E hosts \in HostLists, copied \in BOOLEAN : RemoveHosts(hosts, copied)

SpecHosts == InitHosts /\ [][NextHosts]_vars

(***************************************************************************)
(* Reading the certificate files: loadSSLConfig and                        *)
(* checkExistingCertificates of https.ts, file by file.                    *)
(***************************************************************************)
FileStates == {"present", "missing", "denied"}

\* fs.readFile(path, 'utf8'): the content, or the code of the error thrown.
ReadFile(file) ==
  IF file = "present" THEN "data"
  ELSE IF file = "missing" THEN "ENOENT"
  ELSE "EACCES"

LoadResult(value, ca, threw) == [value |-> value, ca |-> ca, threw |-> threw]

\* loadSSLConfig, once the paths are validated: the key and the certificate
\* are read inside try/catch, and the catch returns null whatever the error.
LoadSSLConfigFiles(files) ==
  IF ReadFile(files.key) = "data" /\ ReadFile(files.cert) = "data"
    THEN LoadResult("config", FALSE, "none")
    ELSE LoadResult("null", FALSE, "none")

\* checkExistingCertificates: key and certificate are read inside try/catch
\* whose catch returns null whatever the error; a failed read of the CA is
\* logged and leaves ca undefined.
CheckExistingCertificatesFiles(files) ==
  IF ReadFile(files.key) = "data" /\ ReadFile(files.cert) = "data"
    THEN LoadResult("config", ReadFile(files.ca) = "data", "none")
    ELSE LoadResult("null", FALSE, "none")

\* A call of loadSSLConfig.
CallLoadSSLConfig ==
  /\ certFiles # <<>>
  /\ Len(loadLog) < MaxLoadCalls
  /\ loadLog' = Append(loadLog, [fn |-> "loadSSLConfig",
                                 result |-> LoadSSLConfigFiles(certFiles)])
  /\ UNCHANGED <<certFiles, reqVars, portVars, runVars, fileVars, sanVars, concVars, tmpVars>>

\* A call of checkExistingCertificates.
CallCheckExistingCertificates ==
  /\ certFiles # <<>>
  /\ Len(loadLog) < MaxLoadCalls
  /\ loadLog' = Append(loadLog, [fn |-> "checkExistingCertificates",
                                 result |-> CheckExistingCertificatesFiles(certFiles)])
  /\ UNCHANGED <<certFiles, reqVars, portVars, runVars, fileVars, sanVars, concVars, tmpVars>>

InitLoad ==
  /\ ReqIdle
  /\ PortIdle
  /\ RunIdle
  /\ FileIdle
  /\ SanIdle
  /\ ConcIdle
  /\ TmpIdle
  /\ certFiles \in [{"key", "cert", "ca"} -> FileStates]
  /\ loadLog = <<>>

NextLoad == CallLoadSSLConfig \/ CallCheckExistingCertificates

SpecLoad == InitLoad /\ [][NextLoad]_vars

(***************************************************************************)
(* The names of the leaf certificate: generateWildcardPatterns,            *)
(* getAllDomains and httpsConfig of https.ts.  A hostname is the sequence  *)
(* of its labels, domain.split('.'); the empty sequence is the empty       *)
(* string.                                                                 *)
(***************************************************************************)
\* 'stacks.localhost'
DefaultDomain == <<"stacks", "localhost">>

\* The values of the `to` option: not set, a single-label name, names under
\* a parent domain, a name under localhost.
Hostnames ==
  { <<>>, <<"localhost">>, <<"a", "test">>, <<"app", "a", "test">>,
    <<"app", "localhost">> }

\* A generateWildcardPatterns that adds no wildcard.
GenerateWildcardPatternsPlain(domain) == {domain}

\* generateWildcardPatterns: the domain, and `*.` followed by the labels after
\* the first one when the domain has two labels or more.
GenerateWildcardPatterns(domain) ==
  {domain} \cup (IF Len(domain) >= 2 THEN { <<"*">> \o Tail(domain) } ELSE {})

\* 'proxies' in options && Array.isArray(options.proxies)
IsMultiProxyOptions(options) == "proxies" \in DOMAIN options

\* 'to' in options && typeof options.to === 'string'
IsSingleProxyOptions(options) == "to" \in DOMAIN options

\* proxy.to || 'stacks.localhost'
DomainOf(to) == IF to = <<>> THEN DefaultDomain ELSE to

\* getAllDomains: the patterns of every route's domain, and the localhost
\* patterns.
GetAllDomains(options) ==
  (IF IsMultiProxyOptions(options)
     THEN UNION { GenerateWildcardPatterns(DomainOf(options.proxies[i])) :
                    i \in DOMAIN options.proxies }
   ELSE IF IsSingleProxyOptions(options)
     THEN GenerateWildcardPatterns(DomainOf(options.to))
   ELSE {DefaultDomain})
  \cup { <<"localhost">>, <<"*", "localhost">> }

\* httpsConfig: subjectAltNames, a DNS name (type 2) for every domain.
SubjectAltNames(options) ==
  { [type |-> 2, value |-> domain] : domain \in GetAllDomains(options) }

\* The options of a batch as startProxies merges them, { ...config,
\* ...options }: the routes given and the `to` of the defaults; the options
\* of a single route; options with neither.
SanOptionSets ==
  { [proxies |-> b, to |-> DefaultDomain] :
      b \in UNION { [1..n -> Hostnames] : n \in 1..MaxSanRoutes } }
    \cup { [to |-> h] : h \in Hostnames }
    \cup { [verbose |-> FALSE] }

\* A call of httpsConfig(options).
CallHttpsConfig ==
  /\ sanOptions # <<>>
  /\ sanNames = {}
  /\ sanNames' = SubjectAltNames(sanOptions)
  /\ UNCHANGED <<sanOptions, reqVars, portVars, runVars, fileVars, loadVars, concVars, tmpVars>>

InitSan ==
  /\ ReqIdle
  /\ PortIdle
  /\ RunIdle
  /\ FileIdle
  /\ LoadIdle
  /\ ConcIdle
  /\ TmpIdle
  /\ sanOptions \in SanOptionSets
  /\ sanNames = {}

NextSan == CallHttpsConfig

SpecSan == InitSan /\ [][NextSan]_vars

(***************************************************************************)
(* Routes started concurrently: the cli calls startProxy for every entry   *)
(* of the configuration without awaiting, so the setupReverseProxy calls   *)
(* of the routes run interleaved at their awaits.  A probe is two steps:   *)
(* the throwaway server's listen, and its 'listening' or 'error' event     *)
(* with the code that runs on the resolved promise.  The process is        *)
(* privileged.                                                             *)
(***************************************************************************)
\* The ports held at the moment: by other processes, by the listeners of
\* this process, and by the throwaway servers of probes under way.
PortsInUse ==
  cOccupied
    \cup { l.port : l \in cListeners }
    \cup { cRoute[r].at : r \in { q \in DOMAIN cRoute : cRoute[q].probe = "held" } }

\* setupReverseProxy is entered for a route: the first port probed is 80,
\* for the redirect server of a TLS route or as the target port.
RouteStartup(ssl) ==
  [ssl |-> ssl,
   pc |-> IF ssl THEN "redirect" ELSE "target",
   probe |-> "idle",
   at |-> HttpPort,
   port |-> Unsettled]

\* isPortInUse: server.listen(port, hostname) of the throwaway server binds
\* the port, or fails with EADDRINUSE.
ProbeListen(r) ==
  /\ cRoute[r].pc \in {"redirect", "target", "fallback"}
  /\ cRoute[r].probe = "idle"
  /\ cRoute' = [cRoute EXCEPT
                  ![r].probe = IF IsPortInUse(cRoute[r].at, PortsInUse, TRUE) = "false"
                                 THEN "held" ELSE "refused"]
  /\ UNCHANGED <<cOccupied, cListeners, reqVars, portVars, runVars, fileVars,
                 loadVars, sanVars, tmpVars>>

\* isPortInUse resolves: on 'listening' the throwaway server is closed and
\* the port is reported free, on EADDRINUSE it is reported busy; then
\* setupReverseProxy goes on with the result.  A free port 80 gets the
\* redirect server (listen(80) binds at once); a free target or fallback
\* port is the final port, handed to createProxyServer, whose server.listen
\* binds in a later step; a busy target port starts the search at the
\* fallback base and a busy fallback port moves it one port up.
ProbeSettles(r) ==
  /\ cRoute[r].probe \in {"held", "refused"}
  /\ LET free == cRoute[r].probe = "held"
         c == cRoute[r]
     IN IF c.pc = "redirect"
          THEN /\ cListeners' = IF free
                                  THEN cListeners \cup {[kind |-> "redirect", route |-> r,
                                                         port |-> HttpPort]}
                                  ELSE cListeners
               /\ cRoute' = [cRoute EXCEPT ![r].probe = "idle", ![r].pc = "target",
                                           ![r].at = TargetPort(c.ssl)]
        ELSE IF free
          THEN /\ cRoute' = [cRoute EXCEPT ![r].probe = "idle", ![r].pc = "listen",
                                           ![r].port = c.at]
               /\ UNCHANGED cListeners
        ELSE /\ cRoute' = [cRoute EXCEPT ![r].probe = "idle", ![r].pc = "fallback",
                                         ![r].at = IF c.pc = "target"
                                                     THEN FallbackPort(c.ssl)
                                                     ELSE NextProbe(c.at)]
             /\ UNCHANGED cListeners
  /\ UNCHANGED <<cOccupied, reqVars, portVars, runVars, fileVars, loadVars,
                 sanVars, tmpVars>>

\* createProxyServer: server.listen(listenPort, hostname) binds the final
\* port, or fails with EADDRINUSE and the promise is rejected.
Listen(r) ==
  /\ cRoute[r].pc = "listen"
  /\ IF cRoute[r].port \in PortsInUse
       THEN /\ cRoute' = [cRoute EXCEPT ![r].pc = "failed"]
            /\ UNCHANGED cListeners
       ELSE /\ cRoute' = [cRoute EXCEPT ![r].pc = "listening"]
            /\ cListeners' = cListeners \cup {[kind |-> "route", route |-> r,
                                               port |-> cRoute[r].port]}
  /\ UNCHANGED <<cOccupied, reqVars, portVars, runVars, fileVars, loadVars,
                 sanVars, tmpVars>>

\* ConcRoutes routes, each with or without TLS material, have entered
\* setupReverseProxy; other processes hold some of the target and fallback
\* base ports.
InitConc ==
  /\ ReqIdle
  /\ PortIdle
  /\ RunIdle
  /\ FileIdle
  /\ LoadIdle
  /\ SanIdle
  /\ TmpIdle
  /\ cOccupied \in SUBSET {HttpPort, HttpsPort, HttpFallbackPort, HttpsFallbackPort}
  /\ cRoute \in [1..ConcRoutes -> { RouteStartup(ssl) : ssl \in BOOLEAN }]
  /\ cListeners = {}

NextConc ==
  \/ \E r \in DOMAIN cRoute : ProbeListen(r)
  \/ \E r \in DOMAIN cRoute : ProbeSettles(r)
  \/ \E r \in DOMAIN cRoute : Listen(r)

SpecConc == InitConc /\ [][NextConc]_vars

(***************************************************************************)
(* addHosts and removeHosts in flight together: a signal runs cleanup, and *)
(* with it removeHosts, while startServer awaits addHosts.  Each call      *)
(* reads the hosts file, writes the temporary file os.tmpdir()/hosts.tmp,  *)
(* copies it over the hosts file with sudo cp and unlinks it; the calls    *)
(* interleave at their awaits.  sudo itself succeeds.                      *)
(***************************************************************************)
InFlight(at, content) == [pc |-> at, content |-> content]

\* addHosts: the hosts file is read; nothing is written when every host is
\* found in it.
AddHostsRead ==
  /\ tAdd.pc = "start"
  /\ tAdd' = InFlight(IF NewEntries(tFile, tHosts) = <<>> THEN "skipped" ELSE "read",
                      tFile)
  /\ UNCHANGED <<tInitial, tHosts, tFile, tTmp, tRemove, reqVars, portVars,
                 runVars, fileVars, loadVars, sanVars, concVars>>

\* addHosts: writeFile(tmpFile, existingContent + hostEntries).
AddHostsWrite ==
  /\ tAdd.pc = "read"
  /\ tTmp' = [exists |-> TRUE,
              lines |-> tAdd.content \o HostEntries(NewEntries(tAdd.content, tHosts))]
  /\ tAdd' = [tAdd EXCEPT !.pc = "written"]
  /\ UNCHANGED <<tInitial, tHosts, tFile, tRemove, reqVars, portVars, runVars,
                 fileVars, loadVars, sanVars, concVars>>

\* sudo cp "tmpFile" "hostsFilePath": the hosts file gets the lines the
\* temporary file has at that moment; cp fails when the file is gone.
TmpCopy(op) ==
  IF tTmp.exists
    THEN tFile' = tTmp.lines /\ op' = [op EXCEPT !.pc = "copied"]
    ELSE UNCHANGED tFile /\ op' = [op EXCEPT !.pc = "copyFailed"]

\* The finally block: fs.unlinkSync(tmpFile) throws when the file is gone,
\* and the call throws as well when the copy had failed.
TmpUnlink(op) ==
  /\ tTmp' = NoTmp
  /\ op' = [op EXCEPT !.pc = IF tTmp.exists /\ op.pc = "copied"
                               THEN "done" ELSE "threw"]

\* addHosts: execSudo(cp).
AddHostsCopy ==
  /\ tAdd.pc = "written"
  /\ TmpCopy(tAdd)
  /\ UNCHANGED <<tInitial, tHosts, tTmp, tRemove, reqVars, portVars, runVars,
                 fileVars, loadVars, sanVars, concVars>>

\* addHosts: the finally block.
AddHostsUnlink ==
  /\ tAdd.pc \in {"copied", "copyFailed"}
  /\ TmpUnlink(tAdd)
  /\ UNCHANGED <<tInitial, tHosts, tFile, tRemove, reqVars, portVars, runVars,
                 fileVars, loadVars, sanVars, concVars>>

\* removeHosts, called while addHosts is in flight or after it: the hosts
\* file is read.
RemoveHostsRead ==
  /\ tRemove.pc = "start"
  /\ tAdd.pc # "start"
  /\ tRemove' = InFlight("read", tFile)
  /\ UNCHANGED <<tInitial, tHosts, tFile, tTmp, tAdd, reqVars, portVars,
                 runVars, fileVars, loadVars, sanVars, concVars>>

\* removeHosts: writeFile(tmpFile, newContent).
RemoveHostsWrite ==
  /\ tRemove.pc = "read"
  /\ tTmp' = [exists |-> TRUE, lines |-> NewContent(tRemove.content)]
  /\ tRemove' = [tRemove EXCEPT !.pc = "written"]
  /\ UNCHANGED <<tInitial, tHosts, tFile, tAdd, reqVars, portVars, runVars,
                 fileVars, loadVars, sanVars, concVars>>

\* removeHosts: execSudo(cp).
RemoveHostsCopy ==
  /\ tRemove.pc = "written"
  /\ TmpCopy(tRemove)
  /\ UNCHANGED <<tInitial, tHosts, tTmp, tAdd, reqVars, portVars, runVars,
                 fileVars, loadVars, sanVars, concVars>>

\* removeHosts: the finally block.
RemoveHostsUnlink ==
  /\ tRemove.pc \in {"copied", "copyFailed"}
  /\ TmpUnlink(tRemove)
  /\ UNCHANGED <<tInitial, tHosts, tFile, tAdd, reqVars, portVars, runVars,
                 fileVars, loadVars, sanVars, concVars>>

InitTmp ==
  /\ ReqIdle
  /\ PortIdle
  /\ RunIdle
  /\ FileIdle
  /\ LoadIdle
  /\ SanIdle
  /\ ConcIdle
  /\ tInitial \in FileContents
  /\ tHosts \in HostLists
  /\ tFile = tInitial
  /\ tTmp = NoTmp
  /\ tAdd = InFlight("start", <<>>)
  /\ tRemove = InFlight("start", <<>>)

NextTmp ==
  \/ AddHostsRead
  \/ AddHostsWrite
  \/ AddHostsCopy
  \/ AddHostsUnlink
  \/ RemoveHostsRead
  \/ RemoveHostsWrite
  \/ RemoveHostsCopy
  \/ RemoveHostsUnlink

SpecTmp == InitTmp /\ [][NextTmp]_vars

(***************************************************************************)
(* Claims about the run of a batch, checked under Spec.                    *)
(***************************************************************************)
RouteListeners ==
  { i \in DOMAIN activeServers : activeServers[i].kind = "route" }

RedirectListeners ==
  { i \in DOMAIN activeServers : activeServers[i].kind = "redirect" }

\* C1: in a run of a batch started with HTTPS enabled, the generation
\* routine (createRootCA, generateCert, trust-store install) is entered at
\* most once, whatever the certificate load of each route returns.
C1_GenerationAtMostOnce ==
  httpsOpt # "off" => generations <= 1

\* C2: every route listener of an HTTPS batch is created with the key, the
\* leaf certificate and the CA that startProxies resolved for the batch.
C2_SameMaterial ==
  httpsOpt # "off" =>
    \A i \in RouteListeners : activeServers[i].ssl = batchSSL

\* C3: when the process has exited, close has been called on every listener
\* that was added to the registry.
C3_CloseBeforeExit ==
  exited => \A i \in DOMAIN activeServers : activeServers[i].closeCalled

\* C4: when a signal arrives after startProxies has started all its routes
\* with hosts cleanup enabled, and no removal of hosts entries failed, no
\* domain of the batch without 'localhost' in its name has an entry in the
\* hosts file once the process has exited.
C4_HostsRemovedAtExit ==
  ( /\ exited
    /\ cleanupHosts
    /\ Len(events) = 1
    /\ events[1] = [kind |-> "signal", at |-> "running"]
    /\ \A r \in DOMAIN routes :
         \E i \in RouteListeners :
           activeServers[i].route = r /\ activeServers[i].state # "failed"
    /\ \A c \in cleanups : c.hosts # "failed" )
  => \A r \in DOMAIN routes : ~IsLocalhost(routes[r]) => routes[r] \notin hostsFile

\* C5: in every state of a run at most one HTTP-to-HTTPS redirect listener
\* has been created, however many TLS routes are started.
C5_OneRedirectListener ==
  Cardinality(RedirectListeners) <= 1

C23_SetupFailureRejects ==
  \A i \in RouteListeners :
    activeServers[i].state = "failed" =>
      started[activeServers[i].route].settled = "rejected"

\* C25: a step of startServer for a route of a run whose TLS material is in
\* memory does not enter the generation routine, and the route is set up
\* with that material.
C25_CachedMaterialUsed ==
  [][(pc = "ssl" /\ batchSSL # NoSSL) =>
       /\ generations' = generations
       /\ pc' = "setup" => routeSSL' = batchSSL]_vars

\* C26: a cleanup that has called removeHosts has seen the close callback of
\* every listener it closes.
C26_HostsAfterClose ==
  \A c \in cleanups :
    c.hosts # "none" => \A i \in c.servers : CloseSettled(activeServers, i)

\* C28: every listener in the registry is open: it is bound and close was
\* not called on it.
C28_RegistryIsOpenListeners ==
  \A i \in DOMAIN activeServers : activeServers[i].state = "open"

\* C29: in a run with HTTPS requested, whenever a listener has been created
\* the certificate resolution of startProxies has completed: the batch has
\* its material.
C29_ResolutionBeforeBind ==
  (httpsOpt # "off" /\ activeServers # <<>>) =>
    (pc \notin {"certs", "rejected"} /\ batchSSL # NoSSL)

\* C29 witness: the certificate of the batch was generated and a route
\* listener is open.
C29_Witness ==
  /\ httpsOpt = "true"
  /\ generations >= 1
  /\ batchSSL # NoSSL
  /\ \E i \in RouteListeners : activeServers[i].state = "open"

\* C32: a signal delivered after startProxies has registered its handler, in
\* a run where no route failed to start, leaves one invocation of cleanup.
C32_OneCleanupPerSignal ==
  ( /\ Len(events) = 1
    /\ events[1].kind = "signal"
    /\ events[1].at \in {"hosts", "conn", "ssl", "setup", "running"}
    /\ \A r \in DOMAIN routes : started[r].settled # "rejected"
    /\ \A i \in DOMAIN activeServers : activeServers[i].state # "failed" )
  => Cardinality(cleanups) <= 1

\* A listener whose listen call succeeded.
WasBound(i) == activeServers[i].state \in {"open", "closing", "closed"}

\* C33: no listener is bound for a route that comes after a route whose
\* failure to start invoked cleanup: after a route whose startServer threw,
\* and after a route whose listen call was rejected.
C33_NoStartAfterCleanup ==
  \A j \in RouteListeners :
    WasBound(j) =>
      /\ \A r \in 1..(activeServers[j].route - 1) :
           started[r].settled # "rejected"
      /\ \A i \in RouteListeners :
           activeServers[i].route < activeServers[j].route =>
             activeServers[i].state # "failed"

\* The listeners that hold a port.
OpenListeners ==
  { i \in DOMAIN activeServers : activeServers[i].state = "open" }

\* C34: no two listeners of the process, route listeners and the redirect
\* listener, are bound to the same port.
C34_DistinctPorts ==
  \A i, j \in OpenListeners :
    activeServers[i].port = activeServers[j].port => i = j

\* C34 witness: the redirect listener and the listeners of three TLS routes
\* are open, the second and third route on fallback ports.
C34_Witness ==
  /\ Cardinality(OpenListeners) = 4
  /\ \E i, j \in OpenListeners :
       /\ activeServers[i].port = HttpsFallbackPort
       /\ activeServers[j].port = HttpsFallbackPort + 1

\* The step is a run of the generation routine that threw: the routine was
\* entered and no file was written.
GenerationThrew == generations' = generations + 1 /\ disk' = disk

\* The step is startServer calling generateCertificate for the current
\* route: HTTPS is on and no material could be loaded.
CallsGenerateCertificate ==
  /\ pc = "ssl"
  /\ pc' # "ssl"
  /\ ~exited
  /\ httpsOpt # "off"
  /\ (IF LoadSSLConfigThrows THEN batchSSL
      ELSE LoadSSLConfig(RouteKey(routes[idx]), disk)) = NoSSL

\* C39: a generation that throws leaves the certificate cache empty, and a
\* generateCertificate call made while the cache is empty, after a
\* generation that threw, enters the generation routine again.
C39_FailedGenerationNotCached ==
  [][/\ GenerationThrew => cachedSSLConfig' = NoMaterial
     /\ (CallsGenerateCertificate /\ generations >= 1
           /\ \A k \in PathKeys : disk[k].origin # "new")
        => (cachedSSLConfig = NoMaterial /\ generations' = generations + 1)]_vars

\* C39 witness: the generation routine was entered a second time after it
\* threw, and the cache is empty.
C39_Witness ==
  /\ generations = 2
  /\ cachedSSLConfig = NoMaterial
  /\ \A k \in PathKeys : disk[k].origin # "new"

\* C40: once cleanup has been invoked the process exits, when the
\* connections of the closing servers end and removeHosts settles; a
\* listener that failed to bind, or that an earlier cleanup has closed, does
\* not keep cleanup waiting.
C40_CleanupExits ==
  (cleanups # {}) ~> exited

\* C40 witness: the process has exited after a cleanup that closed a
\* listener that had failed to bind and one that was open.
C40_Witness ==
  /\ exited
  /\ exitCode = 0
  /\ \E c \in cleanups :
       /\ \E i \in c.servers : activeServers[i].state = "failed"
       /\ \E i \in c.servers : activeServers[i].state = "closed"

\* C12: cleanup exits with code 0 only when no step of it failed: when the
\* process has exited with code 0, the cleanup whose promises all settled had
\* no failed removal of hosts entries.
C12_ExitCodeReflectsFailures ==
  (exited /\ exitCode = 0) =>
    \A c \in cleanups : CleanupDone(c, activeServers) => c.hosts # "failed"

\* C13: when cleanup was invoked more than once and the process has exited
\* with code 0, the run ends as after a single invocation: every listener an
\* invocation called close on is closed, and the domains an invocation
\* handed to removeHosts are out of the hosts file unless the removal failed.
C13_SecondCleanupSameOutcome ==
  (exited /\ exitCode = 0 /\ Cardinality(cleanups) >= 2) =>
    \A c \in cleanups :
      /\ \A i \in c.servers : CloseSettled(activeServers, i)
      /\ c.hosts # "failed" => c.removing \cap hostsFile = {}

\* C16: a domain with 'localhost' in its name or the loopback literal never
\* gets an entry in the hosts file, and no cleanup hands such a domain to
\* removeHosts.
C16_LoopbackNeverTargeted ==
  /\ \A d \in hostsFile : ~IsLocalhost(d) /\ ~IsLoopback(d)
  /\ \A c \in cleanups :
       \A d \in c.removing : ~IsLocalhost(d) /\ ~IsLoopback(d)

C18_PathPairValidated ==
  httpsOpt = "keyPath" =>
    /\ \A k \in PathKeys : disk[k].origin # "new"
    /\ cachedSSLConfig = NoMaterial
    /\ RouteListeners = {}

(***************************************************************************)
(* Claims about the port allocator, checked under SpecPort.                *)
(***************************************************************************)
ReportsFree(port) == IsPortInUse(port, pOccupied, pPrivileged) = "false"

ReportsBusy(port) == IsPortInUse(port, pOccupied, pPrivileged) = "true"

\* port is the smallest port >= from that isPortInUse reports free.
SmallestFreeFrom(port, from) ==
  /\ port >= from
  /\ ReportsFree(port)
  /\ \A q \in from..(port - 1) : ~ReportsFree(q)

\* C6: for every start port P and every set of occupied ports,
\* findAvailablePort returns the smallest port >= P that isPortInUse reports
\* free, and never returns P when P is occupied; when every port it has to
\* probe is reported busy or free, it does return.
C6_SmallestFreePort ==
  (pCall = "findAvailablePort" /\ pPc # "called") =>
    /\ pPc = "returned" =>
         /\ SmallestFreeFrom(pResult.finalPort, pStart)
         /\ ReportsBusy(pStart) => pResult.finalPort # pStart
    /\ (\E q \in pStart..(pStart + 2 * PortSpan + 4) :
           /\ ReportsFree(q)
           /\ \A r \in pStart..(q - 1) : ReportsBusy(r)) => pPc = "returned"

\* C6 witness: findAvailablePort returned after stepping over two busy ports.
C6_Witness ==
  /\ pCall = "findAvailablePort"
  /\ pPc = "returned"
  /\ ReportsBusy(pStart)
  /\ ReportsBusy(pStart + 1)
  /\ pResult.finalPort = pStart + 2

C24_ProbeSettles ==
  /\ \A port \in Ports :
       LET outcome == ListenOutcome(port, pOccupied, pPrivileged)
       IN /\ ReportsBusy(port) <=> outcome = "EADDRINUSE"
          /\ ReportsFree(port) <=> outcome = "listening"
  /\ pPc # "pending"

(***************************************************************************)
IsPrefix(s, t) == Len(s) <= Len(t) /\ SubSeq(t, 1, Len(s)) = s

PathsOf(reqs) == [i \in DOMAIN reqs |-> reqs[i].path]

\* The alternates the specification lists for an extensionless url that does
\* not end in "/": url.html, then url/index.html.
ExpectedAlternates(u) == <<u \o DotHtml, u \o <<"/", "index", ".", "html">>>>

\* An upstream request has failed: it answered with a status other than 200,
\* or its socket raised an error.
Failed(r) == r.st = "failed" \/ (r.st \in {"responded", "ended"} /\ r.status # 200)

OkAlternates == {i \in 2..Len(upReqs) : upReqs[i].status = 200}

\* Every alternate has failed and none is left to try.
ChainExhausted ==
  /\ Len(upReqs) >= 2
  /\ \A i \in 2..Len(upReqs) : Failed(upReqs[i])
  /\ upReqs[Len(upReqs)].rest = <<>>

C10_CleanUrlOptionApplied ==
  (hOrigin \in {"startProxy", "startProxies"} /\ hOption /\ upReqs # <<>>)
  => upReqs[1].path =
       (IF HasExtension(url) THEN url
        ELSE IF EndsWith(url, <<"/">>) THEN url \o <<"index", ".", "html">>
        ELSE url \o DotHtml)

\* C11: an error of an upstream request, before or after the response head
\* was written to the client, never ends in an uncaught exception: no second
\* res.writeHead is made for the request.
C11_UpstreamErrorContained ==
  (\E i \in DOMAIN upReqs : upReqs[i].st = "failed") => ~Crashed

C22_HeadWrittenOnce ==
  Len(writes) <= 1

(***************************************************************************)
(* Claims about the hosts file, checked under SpecHosts.                   *)
(***************************************************************************)
\* The call at position n of the log is op([d]) and had the given outcome.
Called(n, op, d, outcome) ==
  /\ Len(fileOps) >= n
  /\ fileOps[n].op = op
  /\ fileOps[n].hosts = <<d>>
  /\ fileOps[n].outcome = outcome

\* The tagged blocks of host d: a marker line followed by the two mapping
\* lines of d.
BlocksOf(lines, d) ==
  { i \in DOMAIN lines :
      /\ i + 2 <= Len(lines)
      /\ lines[i] = Marker
      /\ lines[i + 1] = Ipv4Entry(d)
      /\ lines[i + 2] = Ipv6Entry(d) }

\* Host d has a mapping line of its own in the file.
Mapped(lines, d) ==
  \E i \in DOMAIN lines : lines[i] \in {Ipv4Entry(d), Ipv6Entry(d)}

\* C14: after addHosts([d]) was called twice and neither call failed, on a
\* hosts file that had no mapping line of d, the file has exactly one tagged
\* block of d and the second call left the file as the first one did.
C14_AddTwiceOneBlock ==
  \A d \in HostNames :
    ( /\ Len(fileOps) = 2
      /\ \A n \in 1..2 : \E o \in {"added", "skipped"} : Called(n, "addHosts", d, o)
      /\ ~Mapped(fileInitial, d) )
    => /\ fileOps[2].lines = fileOps[1].lines
       /\ Cardinality(BlocksOf(fileLines, d)) = 1

\* C15: after addHosts([d]) added the block of d and removeHosts([d])
\* rewrote the file, the file has no marker line and no mapping line of d,
\* and its lines are the lines it had before the two calls, up to empty
\* lines at the end.
C15_AddRemoveRestores ==
  \A d \in HostNames :
    (Called(1, "addHosts", d, "added") /\ Called(2, "removeHosts", d, "removed"))
    => /\ \A i \in DOMAIN fileLines :
            fileLines[i] \notin {Marker, Ipv4Entry(d), Ipv6Entry(d)}
       /\ PopEmpty(fileLines) = PopEmpty(fileInitial)

\* The file a call of the log found.
Before(n) == IF n = 1 THEN fileInitial ELSE fileOps[n - 1].lines

\* A loopback mapping line of some host.
IsMapping(line) ==
  \E h \in HostNames : line \in {Ipv4Entry(h), Ipv6Entry(h)}

\* Line i is one the tool wrote: a marker, or a mapping line that is one of
\* the two lines under a marker.
Owned(lines, i) ==
  \/ lines[i] = Marker
  \/ /\ IsMapping(lines[i])
     /\ \E k \in 1..2 : i - k >= 1 /\ lines[i - k] = Marker

\* The lines from i on that the tool did not write, empty lines left out.
RECURSIVE OtherLines(_, _)
OtherLines(lines, i) ==
  IF i > Len(lines) THEN <<>>
  ELSE IF Owned(lines, i) \/ lines[i] = Blank THEN OtherLines(lines, i + 1)
  ELSE <<lines[i]>> \o OtherLines(lines, i + 1)

RECURSIVE IsSubsequence(_, _)
IsSubsequence(s, t) ==
  IF s = <<>> THEN TRUE
  ELSE IF t = <<>> THEN FALSE
  ELSE IF Head(s) = Head(t) THEN IsSubsequence(Tail(s), Tail(t))
  ELSE IsSubsequence(s, Tail(t))

\* C27: a removeHosts that rewrote the file removed no line other than
\* marker lines and the mapping lines written under a marker: the other
\* lines of the file it found are all in the file it left, in their order.
C27_OnlyOwnLinesRemoved ==
  \A n \in DOMAIN fileOps :
    (fileOps[n].op = "removeHosts" /\ fileOps[n].outcome = "removed")
    => IsSubsequence(OtherLines(Before(n), 1), fileOps[n].lines)

\* C37: a removeHosts that rewrote the file left no marker line in it,
\* whichever hosts it was given: the file it left is the file it found
\* without the tagged blocks and with one line break at the end.
C37_RemovesEveryBlock ==
  \A n \in DOMAIN fileOps :
    (fileOps[n].op = "removeHosts" /\ fileOps[n].outcome = "removed")
    => /\ \A i \in DOMAIN fileOps[n].lines : Trim(fileOps[n].lines[i]) # Marker
       /\ fileOps[n].lines = NewContent(Before(n))

\* C37 witness: removeHosts was given app.test alone and rewrote a file
\* that had the tagged block of app.test.dev.
C37_Witness ==
  /\ fileOps # <<>>
  /\ fileOps[1].op = "removeHosts"
  /\ fileOps[1].outcome = "removed"
  /\ fileOps[1].hosts = << <<"app.test">> >>
  /\ BlocksOf(fileInitial, <<"app.test", ".dev">>) # {}
  /\ BlocksOf(fileLines, <<"app.test", ".dev">>) = {}

\* C38: an addHosts([d]) that skipped d found a loopback mapping line of d
\* itself in the file, and the presence test of checkHosts and addHosts
\* finds d in the file a call found only if the file has such a line.
C38_ExactHostMatch ==
  \A n \in DOMAIN fileOps :
    \A d \in HostNames :
      /\ Called(n, "addHosts", d, "skipped") => Mapped(Before(n), d)
      /\ HostExists(Before(n), d) => Mapped(Before(n), d)

(***************************************************************************)
(* Claims about reading the certificate files, checked under SpecLoad.     *)
(***************************************************************************)
\* The error of the first read that fails, key before certificate.
FirstReadError(files) ==
  IF ReadFile(files.key) # "data" THEN ReadFile(files.key)
  ELSE IF ReadFile(files.cert) # "data" THEN ReadFile(files.cert)
  ELSE "none"

\* C30: a load of the certificate files returns null when the read that
\* fails finds the file missing, and throws the error when the read fails
\* for another reason, such as permission denied.
C30_OtherErrorsPropagate ==
  \A n \in DOMAIN loadLog :
    LET error == FirstReadError(certFiles)
        result == loadLog[n].result
    IN /\ error = "ENOENT" => (result.value = "null" /\ result.threw = "none")
       /\ error = "EACCES" => result.threw = "EACCES"

(***************************************************************************)
(* Claims about the names of the leaf certificate, checked under SpecSan.  *)
(***************************************************************************)
\* The DNS names of the certificate.
SanValues == { n.value : n \in sanNames }

\* The target hostnames of the routes in the options.
RouteHostnames ==
  IF "proxies" \in DOMAIN sanOptions
    THEN { DomainOf(sanOptions.proxies[i]) : i \in DOMAIN sanOptions.proxies }
  ELSE IF "to" \in DOMAIN sanOptions THEN {DomainOf(sanOptions.to)}
  ELSE {}

Finished(op) == op.pc \in {"skipped", "done", "threw"}

\* The lines of a file without the empty ones.
NonBlank(lines) ==
  LET Filled(line) == line # Blank
  IN SelectSeq(lines, Filled)

\* The file addHosts(hosts) leaves when it runs alone.
AddedTo(lines, hosts) == lines \o HostEntries(NewEntries(lines, hosts))

\* C36: when addHosts and the removeHosts called while it was in flight
\* have both finished, the hosts file is, up to empty lines, the file one of
\* the two serial orders of the calls leaves.
C36_SerialOutcome ==
  (Finished(tAdd) /\ Finished(tRemove)) =>
    NonBlank(tFile) \in { NonBlank(NewContent(AddedTo(tInitial, tHosts))),
                          NonBlank(AddedTo(NewContent(tInitial), tHosts)) }

=============================================================================
